---- MODULE Spec2Model ----
(***************************************************************************)
(* Model of restore_lamp.py: restore_assembled_state() reads a JSON file   *)
(* that maps object names to transforms and assigns location,              *)
(* rotation_euler and scale on every scene object that the file names.     *)
(* The function is modelled statement by statement; the scene              *)
(* (bpy.data.objects) and the state file are the inputs, drawn in Init.    *)
(***************************************************************************)
EXTENDS Integers, Sequences, FiniteSets, TLC

\* ---------------------------------------------------------------- bounds
\* Largest number of entries in the saved-state mapping.
MaxEntries == 2

\* Object names that may occur in the scene and in the state file.
Names == {"LampBase", "LampShade", "LampArm"}

\* ------------------------------------------------------------- constants
state_path == "/Users/andresguarnizo/Projects/Personal_Website/lamp_assembled_state.json"

\* The three keys read from a record, in the order the code reads them.
Keys == {"location", "rotation_euler", "scale"}

None == "None"

\* A record with no keys; also the value of `transforms` before the loop.
NoRecord == [k \in {} |-> <<>>]

\* ------------------------------------------------------------ input sets
\* Complete transform records that may be stored in the file.
FullRecords ==
    { [location |-> <<1, 2, 3>>, rotation_euler |-> <<0, 0, 0>>, scale |-> <<1, 1, 1>>],
      [location |-> <<0, 0, 1>>, rotation_euler |-> <<0, 0, 7>>, scale |-> <<2, 2, 2>>] }

\* Records as they may appear in the file: the complete records, and one of
\* them cut down to any subset of the keys.
Records ==
    FullRecords \cup
    { [k \in S |-> (CHOOSE t \in FullRecords : t.location = <<1, 2, 3>>)[k]] : S \in SUBSET Keys }

\* Transforms a scene object may have before the script runs.
InitTransforms ==
    { [location |-> <<0, 0, 0>>, rotation_euler |-> <<0, 0, 0>>, scale |-> <<1, 1, 1>>],
      [location |-> <<4, 5, 6>>, rotation_euler |-> <<0, 0, 3>>, scale |-> <<3, 3, 3>>] }

\* Scenes: a set of named objects, each with a transform.
Scenes == UNION { [S -> InitTransforms] : S \in SUBSET Names }

\* Parsed documents: sequences of (name, record) pairs with distinct names
\* (a JSON object parsed into a dict keeps one entry per key, in order).
Documents ==
    UNION { { d \in [1..n -> [name : Names, transforms : Records]] :
                \A a, b \in 1..n : a # b => d[a].name # d[b].name } : n \in 0..MaxEntries }

\* Files: missing, present but not well-formed JSON, or a well-formed document.
Files ==
    { [exists |-> FALSE, valid |-> FALSE, items |-> <<>>],
      [exists |-> TRUE,  valid |-> FALSE, items |-> <<>>] }
    \cup { [exists |-> TRUE, valid |-> TRUE, items |-> d] : d \in Documents }

\* ------------------------------------------------------------------ state
VARIABLES
    file,       \* the file at state_path
    objects,    \* bpy.data.objects: name -> [location, rotation_euler, scale]
    pc,         \* position in restore_assembled_state
    state,      \* local: the parsed mapping, as a sequence of items
    i,          \* number of items the for loop has taken
    obj_name,   \* local: name of the current item
    transforms, \* local: record of the current item
    obj,        \* local: result of bpy.data.objects.get
    out,        \* text printed during the current run
    exc,        \* exception that ended the current run
    visited,    \* history: names taken by the for loop in the current run
    before,     \* history: objects when the current run started
    prev,       \* history: objects when the previous run ended
    again       \* history: TRUE when a previous run has ended

vars == <<file, objects, pc, state, i, obj_name, transforms, obj, out, exc,
          visited, before, prev, again>>

locals == <<state, i, obj_name, transforms, obj>>
history == <<visited, before, prev, again>>

ErrorMsg == [kind |-> "Error", arg |-> state_path]
RestoredMsg(n) == [kind |-> "Restored", arg |-> n]

Terminal == {"returned", "raised"}

Init ==
    /\ file \in Files
    /\ objects \in Scenes
    /\ pc = "idle"
    /\ state = <<>>
    /\ i = 0
    /\ obj_name = None
    /\ transforms = NoRecord
    /\ obj = None
    /\ out = <<>>
    /\ exc = None
    /\ visited = <<>>
    /\ before = objects
    /\ prev = objects
    /\ again = FALSE

\* Lines 22-23: the script entry point calls restore_assembled_state().
\* It may be run again after a run has ended.
Main ==
    /\ pc \in {"idle"} \cup Terminal
    /\ pc' = "exists"
    /\ state' = <<>>
    /\ i' = 0
    /\ obj_name' = None
    /\ transforms' = NoRecord
    /\ obj' = None
    /\ out' = <<>>
    /\ exc' = None
    /\ visited' = <<>>
    /\ before' = objects
    /\ prev' = IF pc \in Terminal THEN objects ELSE prev
    /\ again' = (pc \in Terminal)
    /\ UNCHANGED <<file, objects>>

\* Variant of ExistsCheck without the early return of lines 8-9.
ExistsCheck_swallow ==
    /\ pc = "exists"
    /\ pc' = "load"
    /\ UNCHANGED <<file, objects, locals, out, exc, history>>

\* Lines 7-9: report a missing file and return.
ExistsCheck ==
    /\ pc = "exists"
    /\ IF ~file.exists
         THEN /\ out' = Append(out, ErrorMsg)
              /\ pc' = "returned"
         ELSE /\ out' = out
              /\ pc' = "load"
    /\ UNCHANGED <<file, objects, locals, exc, history>>

\* Variant of Load that accepts a document that does not parse as an empty mapping.
Load_lenient ==
    /\ pc = "load"
    /\ IF ~file.exists
         THEN /\ exc' = "FileNotFoundError"
              /\ pc' = "raised"
              /\ state' = state
         ELSE /\ exc' = exc
              /\ pc' = "for"
              /\ state' = file.items
    /\ UNCHANGED <<file, objects, i, obj_name, transforms, obj, out, history>>

\* Lines 11-12: open the file and parse it; open() and json.load() raise.
Load ==
    /\ pc = "load"
    /\ IF ~file.exists
         THEN /\ exc' = "FileNotFoundError"
              /\ pc' = "raised"
              /\ state' = state
         ELSE IF ~file.valid
           THEN /\ exc' = "JSONDecodeError"
                /\ pc' = "raised"
                /\ state' = state
           ELSE /\ exc' = exc
                /\ pc' = "for"
                /\ state' = file.items
    /\ UNCHANGED <<file, objects, i, obj_name, transforms, obj, out, history>>

\* Variant of ForNext that walks the items from the last to the first.
ForNext_reversed ==
    /\ pc = "for"
    /\ IF i < Len(state)
         THEN /\ i' = i + 1
              /\ obj_name' = state[Len(state) - i].name
              /\ transforms' = state[Len(state) - i].transforms
              /\ visited' = Append(visited, state[Len(state) - i].name)
              /\ pc' = "get"
         ELSE /\ pc' = "returned"
              /\ UNCHANGED <<i, obj_name, transforms, visited>>
    /\ UNCHANGED <<file, objects, state, obj, out, exc, before, prev, again>>

\* Line 14: take the next item of state.items(), or fall off the end.
ForNext ==
    /\ pc = "for"
    /\ IF i < Len(state)
         THEN /\ i' = i + 1
              /\ obj_name' = state[i + 1].name
              /\ transforms' = state[i + 1].transforms
              /\ visited' = Append(visited, state[i + 1].name)
              /\ pc' = "get"
         ELSE /\ pc' = "returned"
              /\ UNCHANGED <<i, obj_name, transforms, visited>>
    /\ UNCHANGED <<file, objects, state, obj, out, exc, before, prev, again>>

\* Variant of Lookup that subscripts bpy.data.objects[obj_name] instead of .get.
Lookup_subscript ==
    /\ pc = "get"
    /\ IF obj_name \in DOMAIN objects
         THEN /\ obj' = obj_name
              /\ pc' = "location"
              /\ exc' = exc
         ELSE /\ obj' = obj
              /\ pc' = "raised"
              /\ exc' = "KeyError"
    /\ UNCHANGED <<file, objects, state, i, obj_name, transforms, out, history>>

\* Variant of Lookup in which the print of line 20 is outside the `if obj:`.
Lookup_print_always ==
    /\ pc = "get"
    /\ IF obj_name \in DOMAIN objects
         THEN /\ obj' = obj_name
              /\ pc' = "location"
         ELSE /\ obj' = None
              /\ pc' = "print"
    /\ UNCHANGED <<file, objects, state, i, obj_name, transforms, out, exc, history>>

\* Variant of Lookup that falls back on some other object of the scene.
Lookup_fallback ==
    /\ pc = "get"
    /\ IF obj_name \in DOMAIN objects
         THEN /\ obj' = obj_name
              /\ pc' = "location"
         ELSE IF DOMAIN objects # {}
           THEN /\ obj' \in DOMAIN objects
                /\ pc' = "location"
           ELSE /\ obj' = None
                /\ pc' = "for"
    /\ UNCHANGED <<file, objects, state, i, obj_name, transforms, out, exc, history>>

\* Lines 15-16: look the object up by name; skip the entry when it is absent.
Lookup ==
    /\ pc = "get"
    /\ IF obj_name \in DOMAIN objects
         THEN /\ obj' = obj_name
              /\ pc' = "location"
         ELSE /\ obj' = None
              /\ pc' = "for"
    /\ UNCHANGED <<file, objects, state, i, obj_name, transforms, out, exc, history>>

\* One assignment `obj.<field> = transforms["<field>"]`: the subscript is
\* evaluated first and raises KeyError when the key is absent.
AssignField(field, next) ==
    /\ IF field \in DOMAIN transforms
         THEN /\ objects' = [objects EXCEPT ![obj][field] = transforms[field]]
              /\ pc' = next
              /\ exc' = exc
         ELSE /\ objects' = objects
              /\ pc' = "raised"
              /\ exc' = "KeyError"
    /\ UNCHANGED <<file, locals, out, history>>

VecAdd(a, b) == [k \in 1..3 |-> a[k] + b[k]]

\* Variant of AssignLocation that adds the stored location (+=) instead of overwriting.
AssignLocation_accumulate ==
    /\ pc = "location"
    /\ IF "location" \in DOMAIN transforms
         THEN /\ objects' = [objects EXCEPT ![obj].location =
                                VecAdd(@, transforms["location"])]
              /\ pc' = "rotation_euler"
              /\ exc' = exc
         ELSE /\ objects' = objects
              /\ pc' = "raised"
              /\ exc' = "KeyError"
    /\ UNCHANGED <<file, locals, out, history>>

\* Variant of AssignLocation that reads all three keys before the first assignment.
AssignLocation_unpack_first ==
    /\ pc = "location"
    /\ IF Keys \subseteq DOMAIN transforms
         THEN /\ objects' = [objects EXCEPT ![obj].location = transforms["location"]]
              /\ pc' = "rotation_euler"
              /\ exc' = exc
         ELSE /\ objects' = objects
              /\ pc' = "raised"
              /\ exc' = "KeyError"
    /\ UNCHANGED <<file, locals, out, history>>

\* Line 17.
AssignLocation ==
    /\ pc = "location"
    /\ AssignField("location", "rotation_euler")

\* Variant of AssignRotation that reads the location key.
AssignRotation_from_location ==
    /\ pc = "rotation_euler"
    /\ IF "rotation_euler" \in DOMAIN transforms
         THEN /\ objects' = [objects EXCEPT ![obj].rotation_euler = transforms["location"]]
              /\ pc' = "scale"
              /\ exc' = exc
         ELSE /\ objects' = objects
              /\ pc' = "raised"
              /\ exc' = "KeyError"
    /\ UNCHANGED <<file, locals, out, history>>

\* Line 18.
AssignRotation ==
    /\ pc = "rotation_euler"
    /\ AssignField("rotation_euler", "scale")

\* Variant of AssignScale that keeps the old scale when the key is absent.
AssignScale_default ==
    /\ pc = "scale"
    /\ objects' = IF "scale" \in DOMAIN transforms
                    THEN [objects EXCEPT ![obj].scale = transforms["scale"]]
                    ELSE objects
    /\ pc' = "print"
    /\ UNCHANGED <<file, locals, out, exc, history>>

\* Line 19.
AssignScale ==
    /\ pc = "scale"
    /\ AssignField("scale", "print")

\* Line 20.
PrintRestored ==
    /\ pc = "print"
    /\ out' = Append(out, RestoredMsg(obj_name))
    /\ pc' = "for"
    /\ UNCHANGED <<file, objects, locals, exc, history>>

Next ==
    \/ Main
    \/ ExistsCheck
    \/ Load
    \/ ForNext
    \/ Lookup
    \/ AssignLocation
    \/ AssignRotation
    \/ AssignScale
    \/ PrintRestored

Spec == Init /\ [][Next]_vars

\* ------------------------------------------------------------ properties
\* Entry j of the document names an object of the scene.
Matched(j) == file.items[j].name \in DOMAIN objects

\* Entry j of the document carries all three keys.
Complete(j) == DOMAIN file.items[j].transforms = Keys

\* The object named by entry j holds the values of the entry's record.
Applied(j) ==
    /\ Matched(j)
    /\ Complete(j)
    /\ \A k \in Keys : objects[file.items[j].name][k] = file.items[j].transforms[k]

\* A "Restored" message for entry j has been printed in the current run.
Reported(j) == \E m \in 1..Len(out) : out[m] = RestoredMsg(file.items[j].name)

Entries == 1..Len(file.items)

\* The "Restored" messages expected from a completed pass, in mapping order.
RECURSIVE ExpectedOut(_)
ExpectedOut(n) ==
    IF n = 0 THEN <<>>
    ELSE IF Matched(n) THEN Append(ExpectedOut(n - 1), RestoredMsg(file.items[n].name))
         ELSE ExpectedOut(n - 1)

\* C1: when every name of the saved state is an object of the scene and every
\* record has all three keys, a completed run leaves each named object's
\* location, rotation_euler and scale equal to the values of its record.
C1_RestoreExact ==
    (/\ pc = "returned"
     /\ file.valid
     /\ \A j \in Entries : Matched(j) /\ Complete(j))
    => \A j \in Entries : Applied(j)

C1_Witness ==
    /\ pc = "returned"
    /\ file.valid
    /\ Len(file.items) = 2
    /\ \A j \in Entries : Applied(j)
    /\ \A j \in Entries : \A k \in Keys :
          before[file.items[j].name][k] # file.items[j].transforms[k]

\* C2: when the file does not exist, no object is ever mutated, and the run
\* ends by returning normally with exactly one message, the missing-file
\* diagnostic naming the path, and no exception.
C2_MissingFile ==
    ~file.exists =>
        /\ objects = before
        /\ pc # "raised"
        /\ exc = None
        /\ pc = "returned" => out = <<ErrorMsg>>
        /\ \A m \in 1..Len(out) : out[m].kind # "Restored"

C2_Witness ==
    /\ ~file.exists
    /\ pc = "returned"
    /\ out = <<ErrorMsg>>
    /\ DOMAIN objects = Names

C4_Idempotent ==
    (again /\ pc \in Terminal) => objects = prev

C4_Witness ==
    /\ again
    /\ pc = "returned"
    /\ objects = prev
    /\ \E j \in Entries : Applied(j)
    /\ Len(out) > 0

\* C5 as stated: whenever the state file contains a record lacking a key, the
\* run ends with an error.
C5_Original ==
    (/\ pc \in Terminal
     /\ file.valid
     /\ \E j \in Entries : ~Complete(j))
    => pc = "raised"

\* C5 amended: whenever the state file contains a record that lacks a key and
\* whose name matches an object of the scene, the run ends with KeyError.
C5_WrongShapeFatal ==
    (/\ pc \in Terminal
     /\ file.valid
     /\ \E j \in Entries : Matched(j) /\ ~Complete(j))
    => /\ pc = "raised"
       /\ exc = "KeyError"

C5_Witness ==
    /\ pc = "raised"
    /\ exc = "KeyError"
    /\ Len(file.items) = 2
    /\ Applied(1)
    /\ Matched(2)
    /\ ~Complete(2)

\* C6: a run that completes has printed exactly one "Restored <name>" message
\* for each entry whose name matches an object, in mapping order, and nothing
\* for the other entries.
C6_RestoredMessages ==
    (pc = "returned" /\ file.exists) => out = ExpectedOut(Len(file.items))

C6_Witness ==
    /\ pc = "returned"
    /\ Len(file.items) = 2
    /\ Matched(1)
    /\ ~Matched(2)
    /\ out = <<RestoredMsg(file.items[1].name)>>

\* C7: when the file exists but is not well-formed JSON, the run ends with
\* the parse error before the pass over the entries starts: no object is
\* mutated and nothing is printed.
C7_MalformedJson ==
    (file.exists /\ ~file.valid) =>
        /\ pc # "returned"
        /\ pc \in Terminal => exc = "JSONDecodeError"
        /\ objects = before
        /\ out = <<>>
        /\ i = 0
        /\ visited = <<>>

C7_Witness ==
    /\ file.exists
    /\ ~file.valid
    /\ pc = "raised"
    /\ exc = "JSONDecodeError"
    /\ DOMAIN objects # {}

\* C8: a run over a parsed document either takes every entry exactly once in
\* mapping order and returns, or stops at the first matched entry whose record
\* lacks a key; in that case every matched entry before it is applied and
\* reported and no entry after it is applied or reported.
C8_AllOrAbort ==
    /\ (pc = "returned" /\ file.exists) =>
          /\ Len(visited) = Len(file.items)
          /\ \A j \in Entries : visited[j] = file.items[j].name
    /\ (pc = "raised" /\ file.valid) =>
          /\ Len(visited) \in Entries
          /\ \A j \in 1..Len(visited) : visited[j] = file.items[j].name
          /\ Matched(Len(visited))
          /\ ~Complete(Len(visited))
          /\ \A j \in Entries :
                /\ (j < Len(visited) /\ Matched(j)) => (Applied(j) /\ Reported(j))
                /\ j > Len(visited) => ~Reported(j)
                /\ (j > Len(visited) /\ Matched(j)) =>
                        objects[file.items[j].name] = before[file.items[j].name]

C8_Witness ==
    /\ pc = "raised"
    /\ file.valid
    /\ Len(file.items) = 2
    /\ Len(visited) = 1
    /\ Matched(2)
    /\ Complete(2)
    /\ \A k \in Keys :
          objects[file.items[2].name][k] # file.items[2].transforms[k]

\* C9: no step changes the file, and no step changes the transform of an
\* object whose name is not a key of the saved state.
C9_Frame ==
    [][ /\ file' = file
        /\ \A n \in DOMAIN objects :
              (\A j \in Entries : file.items[j].name # n) =>
                  (n \in DOMAIN objects' /\ objects'[n] = objects[n]) ]_vars

C9_Witness ==
    /\ pc \in Terminal
    /\ objects # before
    /\ \E n \in DOMAIN objects : \A j \in Entries : file.items[j].name # n

\* C10: when the run stops on a missing key of a matched record, the fields
\* assigned before the missing key hold the record's values, the missing
\* field and those after it keep the values they had when the run started,
\* and no "Restored" message was printed for that object.
KeyOrder == <<"location", "rotation_euler", "scale">>

FirstMissing(t) == CHOOSE m \in 1..3 :
    /\ KeyOrder[m] \notin DOMAIN t
    /\ \A n \in 1..(m - 1) : KeyOrder[n] \in DOMAIN t

C10_NotAtomic ==
    (pc = "raised" /\ exc = "KeyError") =>
        /\ obj = obj_name
        /\ obj \in DOMAIN objects
        /\ DOMAIN transforms # Keys
        /\ \A n \in 1..3 :
              IF n < FirstMissing(transforms)
                THEN objects[obj][KeyOrder[n]] = transforms[KeyOrder[n]]
                ELSE objects[obj][KeyOrder[n]] = before[obj][KeyOrder[n]]
        /\ \A m \in 1..Len(out) : out[m] # RestoredMsg(obj)

C10_Witness ==
    /\ pc = "raised"
    /\ exc = "KeyError"
    /\ DOMAIN transforms = {"location", "rotation_euler"}
    /\ objects[obj].location = transforms.location
    /\ objects[obj].location # before[obj].location
    /\ objects[obj].rotation_euler # before[obj].rotation_euler
    /\ objects[obj].scale = before[obj].scale

====
